---------------------------- MODULE Spec2Model ----------------------------
(***************************************************************************)
(* UK Cinema Finder (src/cinema_new.py): a Streamlit script that loads a   *)
(* cinema table, geocodes a postcode with one HTTP GET and ranks the       *)
(* cinemas by great-circle distance.                                       *)
(*                                                                         *)
(* Numbers.  A coordinate is an integer number of metres of arc along one  *)
(* meridian (every point of the model has longitude 0), where the          *)
(* haversine distance of two points is exactly the arc between them; a     *)
(* distance_km before rounding is an integer number of metres (0.001 km)   *)
(* and after round(2) an integer number of 0.01 km.                        *)
(* Optional values (Python None) are sequences: <<>> is None, <<v>> is v.  *)
(***************************************************************************)
EXTENDS Integers, Sequences, FiniteSets

VARIABLES
    file,          \* the table at DATA_FILE, as read_csv would see it
    cache,         \* st.cache_data's entry for load_data(DATA_FILE)
    df,            \* module-level df of the current script run (line 54)
    pc,            \* position of the current script run
    runs,          \* script runs started so far
    postcode,      \* text_input value (line 59)
    cleaned,       \* geocode_postcode's local (line 34)
    requests,      \* URLs of the GETs issued during this script run
    net,           \* what requests.get did: "none", "inflight", "response", "failed"
    response,      \* the response r of line 39, <<>> when there is none
    geocodeCalls,  \* geocode_postcode invocations during this script run
    user_lat,      \* line 69
    user_lon,      \* line 69
    err,           \* line 69
    shown,         \* the st.error / st.warning text shown, "None" when none
    max_km,        \* slider value read at line 82
    n,             \* selectbox value read at line 82
    work,          \* the frame `work` (lines 76-83)
    rankPasses     \* executions of line 82 during this script run

vars == <<file, cache, df, pc, runs, postcode, cleaned, requests, net, response,
          geocodeCalls, user_lat, user_lon, err, shown, max_km, n, work, rankPasses>>

(***************************** bounds **************************************)
MaxRows == 3          \* rows of the input table
MaxPostcodeLen == 2   \* characters of the postcode typed
MaxRuns == 2          \* script runs (Streamlit reruns the script per interaction)
MaxLimit == 3         \* |limit| of the ranking taken as a function

(**************************** helpers **************************************)
None == <<>>
Some(v) == <<v>>
NoError == "None"

SeqsUpTo(S, k) == UNION {[1..m -> S] : m \in 0..k}

Abs(x) == IF x < 0 THEN -x ELSE x
Min(a, b) == IF a < b THEN a ELSE b
Max(a, b) == IF a > b THEN a ELSE b

(************************* the input table *********************************)
\* A cell of the latitude / longitude column as text.
EmptyCell == [k |-> "empty", v |-> 0]
TextCell == [k |-> "text", v |-> 0]
NumCell(x) == [k |-> "num", v |-> x]

LatNums == {996, 1004, 2000}
LatCells == {EmptyCell, TextCell} \cup {NumCell(x) : x \in LatNums}
LonCells == {EmptyCell, TextCell, NumCell(0)}
Rows == [latitude : LatCells, longitude : LonCells]

Files ==
    {[status |-> "ok", rows |-> rs] : rs \in SeqsUpTo(Rows, MaxRows)}
        \cup {[status |-> "missing", rows |-> <<>>], [status |-> "nocols", rows |-> <<>>]}

NumericRows == {r \in Rows : r.latitude.k = "num" /\ r.longitude.k = "num"}
NumericFiles == {[status |-> "ok", rows |-> rs] : rs \in SeqsUpTo(NumericRows, MaxRows)}
\* The tables the application is run on: at most two records (RankSpec ranks the
\* larger ones), or no file at all.
AppFiles ==
    {f \in NumericFiles : Len(f.rows) <= 2} \cup {[status |-> "missing", rows |-> <<>>]}

(***************************** load_data ***********************************)
NaN == [nan |-> TRUE, v |-> 0]
Number(x) == [nan |-> FALSE, v |-> x]

\* pd.to_numeric(..., errors="coerce"): a number for a numeric cell, NaN otherwise.
to_numeric(cell) == IF cell.k = "num" THEN Number(cell.v) ELSE NaN

\* Lines 15-19: the frame with both columns coerced; idx is the pandas index label.
Coerced(rows) ==
    [i \in 1..Len(rows) |->
        [idx |-> i - 1,
         latitude |-> to_numeric(rows[i].latitude),
         longitude |-> to_numeric(rows[i].longitude)]]

dropna_latitude_only(frame) == SelectSeq(frame, LAMBDA r : ~r.latitude.nan)

\* df.dropna(subset=["latitude", "longitude"])
dropna(frame) == SelectSeq(frame, LAMBDA r : ~r.latitude.nan /\ ~r.longitude.nan)

load_data(f) ==
    IF f.status # "ok"
    THEN [raised |-> TRUE, df |-> <<>>]
    ELSE [raised |-> FALSE, df |-> dropna(Coerced(f.rows))]

(************************* script run: line 54 *****************************)
\* df = load_data(DATA_FILE) under @st.cache_data: computed once, then reused;
\* an exception is not cached and ends the script run.
LoadData ==
    /\ pc = "start"
    /\ IF cache # None
       THEN /\ df' = cache[1]
            /\ pc' = "widgets"
            /\ UNCHANGED cache
       ELSE LET r == load_data(file) IN
            IF r.raised
            THEN /\ pc' = "raised"
                 /\ UNCHANGED <<cache, df>>
            ELSE /\ cache' = Some(r.df)
                 /\ df' = r.df
                 /\ pc' = "widgets"
    /\ UNCHANGED <<file, runs, postcode, cleaned, requests, net, response, geocodeCalls,
                   user_lat, user_lon, err, shown, max_km, n, work, rankPasses>>

\* The button is not pressed: `if run:` is skipped and the script run ends.
NoRun ==
    /\ pc = "widgets"
    /\ pc' = "done"
    /\ UNCHANGED <<file, cache, df, runs, postcode, cleaned, requests, net, response,
                   geocodeCalls, user_lat, user_lon, err, shown, max_km, n, work,
                   rankPasses>>

\* Streamlit reruns the script from the top; only the cache survives.
Rerun ==
    /\ pc \in {"done", "stopped", "raised"}
    /\ runs < MaxRuns
    /\ runs' = runs + 1
    /\ pc' = "start"
    /\ df' = <<>>
    /\ postcode' = <<>>
    /\ cleaned' = <<>>
    /\ requests' = <<>>
    /\ net' = "none"
    /\ response' = None
    /\ geocodeCalls' = 0
    /\ user_lat' = None
    /\ user_lon' = None
    /\ err' = NoError
    /\ shown' = NoError
    /\ max_km' = 0
    /\ n' = 0
    /\ work' = <<>>
    /\ rankPasses' = 0
    /\ UNCHANGED <<file, cache>>

FreshRun ==
    /\ cache = None
    /\ df = <<>>
    /\ pc = "start"
    /\ runs = 1
    /\ postcode = <<>>
    /\ cleaned = <<>>
    /\ requests = <<>>
    /\ net = "none"
    /\ response = None
    /\ geocodeCalls = 0
    /\ user_lat = None
    /\ user_lon = None
    /\ err = NoError
    /\ shown = NoError
    /\ max_km = 0
    /\ n = 0
    /\ work = <<>>
    /\ rankPasses = 0

(************************** geocode_postcode *******************************)
EmptyInput == "Please enter a postcode."
LookupFailed == "Postcode lookup failed. Try again."
InvalidPostcode == "Invalid postcode. Please try a valid UK postcode."

Whitespace == {" ", "\t"}
Chars == {" ", "\t", "a"}
Postcodes == SeqsUpTo(Chars, MaxPostcodeLen)

RECURSIVE lstrip(_)
lstrip(s) == IF s # <<>> /\ Head(s) \in Whitespace THEN lstrip(Tail(s)) ELSE s

RECURSIVE rstrip(_)
rstrip(s) ==
    IF s # <<>> /\ s[Len(s)] \in Whitespace THEN rstrip(SubSeq(s, 1, Len(s) - 1)) ELSE s

RECURSIVE strip_spaces_only(_)
strip_spaces_only(s) ==
    IF s # <<>> /\ Head(s) = " " THEN strip_spaces_only(Tail(s))
    ELSE IF s # <<>> /\ s[Len(s)] = " " THEN strip_spaces_only(SubSeq(s, 1, Len(s) - 1))
    ELSE s

\* str.strip(): leading and trailing whitespace removed.
strip(s) == rstrip(lstrip(s))

\* str.upper()
upper(s) == [i \in 1..Len(s) |-> IF s[i] = "a" THEN "A" ELSE s[i]]

\* str.replace(" ", "")
replace_spaces(s) == SelectSeq(s, LAMBDA c : c # " ")

\* Line 34.
Clean(p) == replace_spaces(upper(strip(p)))

\* The points the lookup can answer with (metres of arc along the meridian).
Origins == {0, 1000}

\* data.get("result"): the key missing, null, or an object whose latitude and
\* longitude may be missing.
Results ==
    {[kind |-> "missing", latitude |-> None, longitude |-> None],
     [kind |-> "null", latitude |-> None, longitude |-> None],
     [kind |-> "object", latitude |-> None, longitude |-> Some(0)]}
        \cup {[kind |-> "object", latitude |-> Some(o), longitude |-> Some(0)] : o \in Origins}

NoResult == [kind |-> "missing", latitude |-> None, longitude |-> None]

\* A response: its HTTP status, whether its body decodes to a JSON object, and
\* that object's "status" (None when the key is missing) and "result".
Responses ==
    [status_code : {200, 404}, json : {TRUE}, status : {None, Some(200), Some(404)},
     result : Results]
        \cup [status_code : {200, 404}, json : {FALSE}, status : {None}, result : {NoResult}]

Returned(lat, lon, e) == [raised |-> FALSE, lat |-> lat, lon |-> lon, err |-> e]
Raised == [raised |-> TRUE, lat |-> None, lon |-> None, err |-> NoError]

geocode_result_payload_first(r) ==
    IF r.json /\ (r.status # Some(200) \/ r.result.kind \in {"missing", "null"})
    THEN Returned(None, None, InvalidPostcode)
    ELSE IF r.status_code # 200
    THEN Returned(None, None, LookupFailed)
    ELSE IF ~r.json \/ r.result.latitude = None \/ r.result.longitude = None
    THEN Raised
    ELSE Returned(r.result.latitude, r.result.longitude, NoError)

\* Lines 41-48: what geocode_postcode makes of the response r.
geocode_result(r) ==
    IF r.status_code # 200
    THEN Returned(None, None, LookupFailed)
    ELSE IF ~r.json
    THEN Raised                                   \* r.json() raises
    ELSE IF r.status # Some(200) \/ r.result.kind \in {"missing", "null"}
    THEN Returned(None, None, InvalidPostcode)
    ELSE IF r.result.latitude = None \/ r.result.longitude = None
    THEN Raised                                   \* data["result"]["latitude"] raises
    ELSE Returned(r.result.latitude, r.result.longitude, NoError)

\* The button is pressed with p in the text input: line 69 calls geocode_postcode,
\* which returns at line 36 or issues the GET of line 39.
ClickRun(p) ==
    /\ pc = "widgets"
    /\ postcode' = p
    /\ geocodeCalls' = geocodeCalls + 1
    /\ cleaned' = Clean(p)
    /\ IF cleaned' = <<>>
       THEN /\ err' = EmptyInput
            /\ shown' = EmptyInput
            /\ pc' = "stopped"
            /\ UNCHANGED <<requests, net>>
       ELSE /\ requests' = Append(requests, cleaned')
            /\ net' = "inflight"
            /\ pc' = "get"
            /\ UNCHANGED <<err, shown>>
    /\ UNCHANGED <<file, cache, df, runs, response, user_lat, user_lon, max_km, n, work,
                   rankPasses>>

HttpResponseRetrying(r) ==
    /\ pc = "get"
    /\ response' = Some(r)
    /\ IF r.status_code # 200 /\ Len(requests) < 2
       THEN /\ requests' = Append(requests, cleaned)
            /\ UNCHANGED <<net, pc, user_lat, user_lon, err, shown>>
       ELSE LET g == geocode_result(r) IN
            /\ net' = "response"
            /\ pc' = IF g.raised THEN "raised" ELSE IF g.err # NoError THEN "stopped" ELSE "rank"
            /\ user_lat' = g.lat
            /\ user_lon' = g.lon
            /\ err' = g.err
            /\ shown' = g.err
            /\ UNCHANGED requests
    /\ UNCHANGED <<file, cache, df, runs, postcode, cleaned, geocodeCalls, max_km, n, work,
                   rankPasses>>

\* requests.get returns r; lines 41-48 and then lines 69-72 of the caller.
HttpResponse(r) ==
    /\ pc = "get"
    /\ response' = Some(r)
    /\ net' = "response"
    /\ LET g == geocode_result(r) IN
        /\ pc' = IF g.raised THEN "raised" ELSE IF g.err # NoError THEN "stopped" ELSE "rank"
        /\ user_lat' = g.lat
        /\ user_lon' = g.lon
        /\ err' = g.err
        /\ shown' = g.err
    /\ UNCHANGED <<file, cache, df, runs, postcode, cleaned, requests, geocodeCalls, max_km,
                   n, work, rankPasses>>

\* requests.get raises (timeout=10 exceeded, connection error): nothing catches it
\* in geocode_postcode or at line 69.
HttpFailure ==
    /\ pc = "get"
    /\ net' = "failed"
    /\ pc' = "raised"
    /\ UNCHANGED <<file, cache, df, runs, postcode, cleaned, requests, response,
                   geocodeCalls, user_lat, user_lon, err, shown, max_km, n, work,
                   rankPasses>>

(************************* ranking: lines 76-83 ****************************)
\* haversine_km for two points of one meridian (lon1 = lon2 in every state of
\* this model): a = sin(dlat/2)^2, c = |dlat|, and the result is the arc between
\* the two latitudes, here in metres.
haversine_km(lat1, lon1, lat2, lon2) == Abs(lat2 - lat1)

\* pandas round(2) of a distance in metres, in units of 0.01 km (half to even).
Round2(d) ==
    LET q == d \div 10
        r == d % 10
    IN  IF r < 5 THEN q
        ELSE IF r > 5 THEN q + 1
        ELSE IF q % 2 = 0 THEN q ELSE q + 1

WithDistance(r, d) ==
    [idx |-> r.idx, latitude |-> r.latitude, longitude |-> r.longitude, distance_km |-> d]

DistanceColumnRounded(frame, lat, lon) ==
    [i \in 1..Len(frame) |->
        WithDistance(frame[i],
            10 * Round2(haversine_km(lat, lon, frame[i].latitude.v, frame[i].longitude.v)))]

\* Lines 76-80: work = df.copy() with the distance_km column.
DistanceColumn(frame, lat, lon) ==
    [i \in 1..Len(frame) |->
        WithDistance(frame[i],
            haversine_km(lat, lon, frame[i].latitude.v, frame[i].longitude.v))]

WithinRadiusStrict(d, mk) == d < mk * 1000

\* distance_km <= max_km, max_km in km
WithinRadius(d, mk) == d <= mk * 1000

\* work[work["distance_km"] <= max_km]
Filter(frame, mk) == SelectSeq(frame, LAMBDA r : WithinRadius(r.distance_km, mk))

Perms(k) == {f \in [1..k -> 1..k] : \A i, j \in 1..k : i # j => f[i] # f[j]}

sort_values_descending(frame) ==
    {[i \in 1..Len(frame) |-> frame[f[i]]] :
        f \in {g \in Perms(Len(frame)) :
                 \A i \in 1..(Len(frame) - 1) :
                    frame[g[i]].distance_km >= frame[g[i + 1]].distance_km}}

\* sort_values("distance_km"): kind defaults to "quicksort", which is not a stable
\* sort, so the rows come out in any order that is ascending by distance_km.
sort_values(frame) ==
    {[i \in 1..Len(frame) |-> frame[f[i]]] :
        f \in {g \in Perms(Len(frame)) :
                 \A i \in 1..(Len(frame) - 1) :
                    frame[g[i]].distance_km <= frame[g[i + 1]].distance_km}}

head_one_more(frame, k) == SubSeq(frame, 1, Min(Max(k, 0) + 1, Len(frame)))

\* DataFrame.head(k): the first k rows, and for k < 0 all rows but the last |k|.
head(frame, k) ==
    IF k >= 0
    THEN SubSeq(frame, 1, Min(k, Len(frame)))
    ELSE SubSeq(frame, 1, Max(0, Len(frame) + k))

\* work["distance_km"].round(2)
RoundColumn(frame) ==
    [i \in 1..Len(frame) |-> WithDistance(frame[i], Round2(frame[i].distance_km))]

\* Lines 76-82 with the slider at mk and the selectbox at lim.
RankSelect(mk, lim) ==
    /\ pc = "rank"
    /\ max_km' = mk
    /\ n' = lim
    /\ \E sorted \in sort_values(Filter(DistanceColumn(df, user_lat[1], user_lon[1]), mk)) :
          work' = head(sorted, lim)
    /\ rankPasses' = rankPasses + 1
    /\ pc' = "round"
    /\ UNCHANGED <<file, cache, df, runs, postcode, cleaned, requests, net, response,
                   geocodeCalls, user_lat, user_lon, err, shown>>

NoCinemas == "No cinemas found"

\* Line 83, then lines 85-113: a warning and st.stop() for an empty frame, the table,
\* the CSV and the map otherwise.
RankRound ==
    /\ pc = "round"
    /\ work' = RoundColumn(work)
    /\ IF work' = <<>>
       THEN shown' = NoCinemas /\ pc' = "stopped"
       ELSE shown' = shown /\ pc' = "done"
    /\ UNCHANGED <<file, cache, df, runs, postcode, cleaned, requests, net, response,
                   geocodeCalls, user_lat, user_lon, err, max_km, n, rankPasses>>

(*************************** the application *******************************)
SliderValues == {1, 10, 50}       \* st.slider(min_value=1, max_value=50, value=10)
NOptions == {5, 10, 15, 20}       \* st.selectbox

Init == file \in AppFiles /\ FreshRun

Next ==
    \/ LoadData
    \/ NoRun
    \/ Rerun
    \/ \E p \in Postcodes : ClickRun(p)
    \/ \E r \in Responses : HttpResponse(r)
    \/ HttpFailure
    \/ \E mk \in SliderValues, lim \in NOptions : RankSelect(mk, lim)
    \/ RankRound

Spec == Init /\ [][Next]_vars

(******************* the ranking taken as a function ***********************)
MaxKms == {1, 2}
Limits == (-MaxLimit)..MaxLimit

\* The state of a script run whose geocode call has just returned the point o.
RankInit ==
    /\ file \in NumericFiles
    /\ df = load_data(file).df
    /\ cache = Some(df)
    /\ pc = "rank"
    /\ runs = 1
    /\ postcode = <<"a">>
    /\ cleaned = Clean(postcode)
    /\ requests = <<cleaned>>
    /\ net = "response"
    /\ \E o \in Origins :
         /\ response = Some([status_code |-> 200, json |-> TRUE, status |-> Some(200),
                             result |-> [kind |-> "object", latitude |-> Some(o),
                                         longitude |-> Some(0)]])
         /\ user_lat = Some(o)
    /\ user_lon = Some(0)
    /\ geocodeCalls = 1
    /\ err = NoError
    /\ shown = NoError
    /\ max_km = 0
    /\ n = 0
    /\ work = <<>>
    /\ rankPasses = 0

RankNext ==
    \/ \E mk \in MaxKms, lim \in Limits : RankSelect(mk, lim)
    \/ RankRound

RankSpec == RankInit /\ [][RankNext]_vars

(********************* the loader taken on its own *************************)
LoadInit == file \in Files /\ FreshRun
LoadNext == LoadData \/ NoRun \/ Rerun
LoadSpec == LoadInit /\ [][LoadNext]_vars


(***************************************************************************)
(*                             Properties                                  *)
(***************************************************************************)
AllWhitespace(p) == \A i \in 1..Len(p) : p[i] \in Whitespace

\* C1: a postcode whose normalized form is empty (it holds nothing but
\* whitespace) makes geocode_postcode return the EmptyInput error, and no
\* request is issued during that invocation.
C1_EmptyInputNoRequest ==
    (geocodeCalls = 1 /\ AllWhitespace(postcode)) =>
        /\ err = EmptyInput
        /\ shown = EmptyInput
        /\ user_lat = None
        /\ requests = <<>>
        /\ net = "none"
        /\ pc = "stopped"

C1_Witness ==
    /\ postcode = <<"\t", " ">>
    /\ geocodeCalls = 1
    /\ err = EmptyInput
    /\ requests = <<>>

C3_TimeoutIsLookupFailed ==
    net = "failed" => (pc = "stopped" /\ err = LookupFailed /\ shown = LookupFailed)

\* C4: a geocode invocation with a non-empty normalized postcode issues exactly
\* one GET whatever the response; a script run makes at most one geocode
\* invocation, and line 82 runs at most once and only after it returned a point.
C4_OneGetPerGeocode ==
    /\ geocodeCalls <= 1
    /\ Len(requests) <= 1
    /\ (geocodeCalls = 1 /\ cleaned # <<>>) => requests = <<cleaned>>
    /\ geocodeCalls = 0 => requests = <<>>
    /\ rankPasses <= 1
    /\ (rankPasses = 1 \/ pc \in {"rank", "round"}) =>
          (geocodeCalls = 1 /\ net = "response" /\ user_lat # None)

C4_Witness ==
    /\ pc = "stopped"
    /\ net = "response"
    /\ response[1].status_code = 404
    /\ requests = <<cleaned>>
    /\ cleaned # <<>>

\* The distance of a row from the origin, before any rounding.
Unrounded(r) == haversine_km(user_lat[1], user_lon[1], r.latitude.v, r.longitude.v)

DfRow(id) == CHOOSE r \in {df[i] : i \in 1..Len(df)} : r.idx = id
DfIdx == {df[i].idx : i \in 1..Len(df)}
InRadiusIdx == {id \in DfIdx : Unrounded(DfRow(id)) <= max_km * 1000}
ReturnedIdx == {work[i].idx : i \in 1..Len(work)}

\* C5: for a positive limit and k records within max_km, the ranking returns
\* exactly min(limit, k) records, all within max_km, none farther than a
\* within-radius record left out.
C5_LimitClosest ==
    (rankPasses = 1 /\ n > 0) =>
        /\ Len(work) = Min(n, Cardinality(InRadiusIdx))
        /\ Cardinality(ReturnedIdx) = Len(work)
        /\ ReturnedIdx \subseteq InRadiusIdx
        /\ \A a \in ReturnedIdx, b \in InRadiusIdx \ ReturnedIdx :
              Unrounded(DfRow(a)) <= Unrounded(DfRow(b))

C5_Witness ==
    /\ rankPasses = 1
    /\ n = 2
    /\ Cardinality(InRadiusIdx) = 3
    /\ Len(work) = 2
    /\ \E i \in 1..Len(df) : Unrounded(df[i]) = max_km * 1000

\* C6: the ranking output is non-decreasing by its rounded distance_km.
C6_SortedByRoundedDistance ==
    (rankPasses = 1 /\ pc \in {"done", "stopped"}) =>
        \A i \in 1..(Len(work) - 1) : work[i].distance_km <= work[i + 1].distance_km

C6_Witness ==
    /\ rankPasses = 1
    /\ pc = "done"
    /\ Len(work) = 3
    /\ work[1].distance_km < work[3].distance_km

GoodIdx ==
    {i - 1 : i \in {j \in 1..Len(file.rows) :
                      file.rows[j].latitude.k = "num" /\ file.rows[j].longitude.k = "num"}}

\* C8: for a readable table with the required columns, load_data does not raise
\* and returns exactly the rows whose latitude and longitude are both numeric, in
\* their original order, each with a numeric latitude and longitude.
C8_LoadKeepsNumericRows ==
    (pc # "start" /\ file.status = "ok") =>
        /\ pc # "raised"
        /\ {df[i].idx : i \in 1..Len(df)} = GoodIdx
        /\ \A i \in 1..(Len(df) - 1) : df[i].idx < df[i + 1].idx
        /\ \A i \in 1..Len(df) :
              /\ ~df[i].latitude.nan
              /\ ~df[i].longitude.nan
              /\ df[i].latitude.v = file.rows[df[i].idx + 1].latitude.v
              /\ df[i].longitude.v = file.rows[df[i].idx + 1].longitude.v

C8_Witness ==
    /\ pc = "widgets"
    /\ Len(file.rows) = 3
    /\ file.rows[1].latitude.k = "text"
    /\ file.rows[3].longitude.k = "empty"
    /\ Len(df) = 1
    /\ df[1].idx = 1

\* C9: records at equal distance appear in their dataset order, and of a tie
\* group cut by the limit the records kept are the earliest of the dataset.
C9_TiesInDatasetOrder ==
    (rankPasses = 1 /\ n > 0) =>
        /\ \A i, j \in 1..Len(work) :
              (i < j /\ Unrounded(work[i]) = Unrounded(work[j])) => work[i].idx < work[j].idx
        /\ \A a \in ReturnedIdx, b \in InRadiusIdx \ ReturnedIdx :
              Unrounded(DfRow(a)) = Unrounded(DfRow(b)) => a < b

\* C10: rounding comes after filtering, sorting and truncation: a record is
\* returned only if its unrounded distance is <= max_km (also when it rounds to
\* max_km), the order is that of the unrounded distances, nothing within the
\* radius is missing unless the limit cut it, and distance_km is the rounded
\* unrounded distance.
C10_RoundingAfterSelection ==
    (rankPasses = 1 /\ pc \in {"done", "stopped"}) =>
        /\ \A i \in 1..Len(work) :
              /\ Unrounded(work[i]) <= max_km * 1000
              /\ work[i].distance_km = Round2(Unrounded(work[i]))
        /\ \A i \in 1..(Len(work) - 1) : Unrounded(work[i]) <= Unrounded(work[i + 1])
        /\ (n >= 0 /\ Len(work) < n) => ReturnedIdx = InRadiusIdx

C10_Witness ==
    /\ rankPasses = 1
    /\ pc = "done"
    /\ \E i \in 1..Len(df) :
          /\ Unrounded(df[i]) > max_km * 1000
          /\ Round2(Unrounded(df[i])) = max_km * 100
          /\ df[i].idx \notin ReturnedIdx
    /\ Len(work) < n

=============================================================================
